---------------------------- MODULE Spec2Model ----------------------------
(***************************************************************************)
(* Products REST service (service/routes.py): the request handlers of      *)
(* /products, /products/{id} and /products/{id}/discount over the Products *)
(* table.  Prices are held in cents (the column has 2 decimal places).     *)
(* The Products model class (service/models.py) is not part of the         *)
(* sources at hand; its find / find_by_name / deserialize / create /       *)
(* update / delete are modelled from the specification (spec.md 3, 4.1).   *)
(***************************************************************************)
EXTENDS Integers, Sequences, FiniteSets, TLC

\* ------------------------------------------------------------------ bounds
\* Largest id the store's sequence hands out in a run.
MaxId == 3
\* Number of requests served in a run of the sequential specification.
MaxRequests == 4

\* ------------------------------------------------------- HTTP status codes
HTTP_200_OK == 200
HTTP_201_CREATED == 201
HTTP_204_NO_CONTENT == 204
HTTP_400_BAD_REQUEST == 400
HTTP_404_NOT_FOUND == 404
HTTP_500_INTERNAL_SERVER_ERROR == 500

\* Decimal('NaN'): what Decimal arithmetic yields once an operand is NaN.
\* It is no amount of cents; every amount of cents is >= 0.
NaN == -1

\* ------------------------------------------------------------------ inputs
\* Ids a request path can carry: 0 is never assigned by the store.
Ids == 0 .. MaxId

\* Text is a sequence of characters, so that matching can look inside it.
NoText == <<>>
\* Request bodies of POST /products and PUT /products/{id}.  `missing` names
\* the fields the JSON object lacks, `numeric` is FALSE when the price is a
\* string that is not a number, `id` is the id the body carries (0: none).
Body(n, d, p, miss, num, i) ==
    [name |-> n, description |-> d, price |-> p, missing |-> miss,
     numeric |-> num, id |-> i]

ValidBodies ==
    { Body(<<"a">>, "d1", 10000, {}, TRUE, 0),
      Body(<<"A", "b">>, "d2", 5, {}, TRUE, 3),
      Body(<<"b">>, "", 1, {"description"}, TRUE, 0) }

InvalidBodies ==
    { Body(NoText, "d1", 10000, {}, TRUE, 0),
      Body(<<"a">>, "d1", 0, {}, TRUE, 0),
      Body(<<"a">>, "d1", -100, {}, TRUE, 0),
      Body(<<"a">>, "d1", 0, {}, FALSE, 0),
      Body(<<"a">>, "d1", 0, {"price"}, TRUE, 0),
      Body(NoText, "d1", 10000, {"name"}, TRUE, 0),
      Body(NoText, "", 0, {"name", "description", "price"}, TRUE, 0) }

Bodies == ValidBodies \cup InvalidBodies

NoBody == Body(NoText, "", 0, {"name", "description", "price"}, TRUE, 0)

\* Names a DELETE /products?name= request asks for.
QueryNames == { <<"a">>, <<"b">>, <<"c">>, <<"_">> }

\* Request bodies of POST /products/{id}/discount.  kind:
\*   "none"    the object has no discount_percentage field
\*   "number"  a JSON number or a numeric string, `pct` percent
\*   "string"  a string float() cannot parse
\*   "null", "list"   JSON null, a JSON array
\*   "nan", "inf"     the strings 'nan' and 'inf', which float() parses
Discount(k, p) == [kind |-> k, pct |-> p]

Percentages == {-10, 0, 20, 50, 100, 150}

Discounts ==
    { Discount("number", p) : p \in Percentages }
      \cup { Discount(k, 0) : k \in {"none", "string", "null", "list", "nan", "inf"} }

NoDiscount == Discount("none", 0)

\* The names X the acceptance step 'the product with name "X" is deleted' is
\* run with.
StepNames == { <<"a">>, <<"b">> }

\* Query strings of GET /products: the name filter (NoText: absent or empty)
\* and the price bounds in cents (<<>>: absent).
Query(n, lo, hi) == [name |-> n, min |-> lo, max |-> hi]

NoQuery == Query(NoText, <<>>, <<>>)

Queries ==
    { NoQuery,
      Query(<<"a">>, <<>>, <<>>),
      Query(<<"_">>, <<>>, <<>>),
      Query(<<"%">>, <<>>, <<>>),
      Query(NoText, <<0>>, <<>>),
      Query(NoText, <<5>>, <<>>),
      Query(NoText, <<>>, <<0>>),
      Query(NoText, <<>>, <<5>>),
      Query(NoText, <<5>>, <<10000>>),
      Query(<<"b">>, <<1>>, <<5>>) }

\* --------------------------------------------------------------- responses
\* status, the message of an error (its pieces, the id among them), the
\* products of the JSON body, and the id the Location header points at.
Response(s, m, b, l) == [status |-> s, message |-> m, body |-> b, location |-> l]

NoResponse == Response(0, <<>>, {}, 0)

Request(o, i, n, b, d) ==
    [op |-> o, id |-> i, name |-> n, data |-> b, discount |-> d, query |-> NoQuery]

ListRequest(q) == [Request("list", 0, NoText, NoBody, NoDiscount) EXCEPT !.query = q]

NoRequest == Request("none", 0, NoText, NoBody, NoDiscount)


\* ------------------------------------------------- Products (the model class)
Product(i, n, d, p) == [id |-> i, name |-> n, description |-> d, price |-> p]

\* Products.find(product_id): the row with that primary key, if any.
Exists(st, id) == \E r \in st : r.id = id

Find(st, id) == CHOOSE r \in st : r.id = id

Lower(c) == IF c = "A" THEN "a" ELSE IF c = "B" THEN "b" ELSE IF c = "C" THEN "c" ELSE c

\* s contains t as a substring, ignoring case.
Contains(s, t) ==
    \E i \in 0 .. (Len(s) - Len(t)) :
        \A j \in 1 .. Len(t) : Lower(s[i + j]) = Lower(t[j])

\* Products.find_by_name(name): case-insensitive substring match.
FindByName(st, name) == { r \in st : Contains(r.name, name) }

\* Products.deserialize(data) accepts the body: name present and not empty,
\* price present, a number and > 0.
ValidData(data) ==
    /\ "name" \notin data.missing
    /\ data.name # NoText
    /\ "price" \notin data.missing
    /\ data.numeric
    /\ data.price > 0

\* Products.deserialize(data): name, description and price from the body;
\* the id is not read from the body.
Deserialize(row, data) ==
    [row EXCEPT !.name = data.name,
                !.description = IF "description" \in data.missing THEN "" ELSE data.description,
                !.price = data.price]

\* product.create(): insert the row under the next id of the sequence.
Insert(st, nid, row) == st \cup {[row EXCEPT !.id = nid]}

\* product.update(): write the row over the stored row with the id `id`.
\* A row that is gone (deleted in the meantime) is not written back.
Update(st, id, row) ==
    IF Exists(st, id) THEN (st \ {Find(st, id)}) \cup {row} ELSE st

\* discount's product.update(): only the price attribute was assigned, so only
\* the price column is written.
UpdatePrice(st, id, price) ==
    IF Exists(st, id)
    THEN (st \ {Find(st, id)}) \cup {[Find(st, id) EXCEPT !.price = price]}
    ELSE st

\* product.update() of a product read earlier: the session writes the columns
\* whose value the handler changed since it read the row, `read`, over the row
\* as it is by now, and no other column; with no column changed it writes
\* nothing.  A row that is gone is not written back.
WriteChanged(st, id, read, row) ==
    IF ~Exists(st, id) \/ row = read
    THEN st
    ELSE (st \ {Find(st, id)})
             \cup {[Find(st, id) EXCEPT
                       !.name = IF row.name # read.name THEN row.name ELSE @,
                       !.description =
                           IF row.description # read.description THEN row.description ELSE @,
                       !.price = IF row.price # read.price THEN row.price ELSE @]}

\* product.delete(): remove the row with that id.
Delete(st, id) == { r \in st : r.id # id }

\* ------------------------------------------------------------ list filters
\* name ILIKE pattern: "%" stands for any run of characters, "_" for any one
\* character, every other character for itself in either case.
RECURSIVE Like(_, _)
Like(s, p) ==
    IF p = <<>>
    THEN s = <<>>
    ELSE IF Head(p) = "%"
    THEN Like(s, Tail(p)) \/ (s # <<>> /\ Like(Tail(s), p))
    ELSE /\ s # <<>>
         /\ (Head(p) = "_" \/ Lower(Head(s)) = Lower(Head(p)))
         /\ Like(Tail(s), Tail(p))

\* Products.price >= min_price and Products.price <= max_price as the table
\* orders prices: NaN sorts above every number.
PriceGe(price, bound) == price = NaN \/ price >= bound

PriceLe(price, bound) == price # NaN /\ price <= bound

\* ------------------------------------------------------ discount arithmetic
\* float(data["discount_percentage"]): the exception raised ("" for none) and
\* the value: a finite number of percent, nan or inf.
ToFloat(d) ==
    CASE d.kind = "number" -> [exc |-> "", val |-> "finite", pct |-> d.pct]
      [] d.kind = "nan"    -> [exc |-> "", val |-> "nan", pct |-> 0]
      [] d.kind = "inf"    -> [exc |-> "", val |-> "inf", pct |-> 0]
      [] d.kind = "string" -> [exc |-> "ValueError", val |-> "finite", pct |-> 0]
      [] OTHER             -> [exc |-> "TypeError", val |-> "finite", pct |-> 0]

\* OutOfRange without its lower bound: only "> 100" is tested.
OutOfRangeUpperOnly(f) ==
    \/ f.val = "finite" /\ f.pct > 100
    \/ f.val = "inf"

\* discount_percentage < 0 or discount_percentage > 100: every comparison with
\* nan is false.
OutOfRange(f) ==
    \/ f.val = "finite" /\ (f.pct < 0 \/ f.pct > 100)
    \/ f.val = "inf"

\* x.quantize(Decimal("0.01")) of x = n / 100 cents, n >= 0, under the default
\* context: ROUND_HALF_EVEN.
Quantize(n) ==
    LET q == n \div 100
        r == n % 100
    IN  IF r > 50 \/ (r = 50 /\ q % 2 = 1) THEN q + 1 ELSE q

\* original_price - (original_price * Decimal(pct)) / Decimal(100), quantized;
\* NaN as soon as an operand is NaN.
NewPrice(price, f) ==
    IF price = NaN \/ f.val = "nan"
    THEN NaN
    ELSE Quantize(price * 100 - price * f.pct)


\* ---------------------------------------------------------------- handlers
\* Each handler maps the store (and the id sequence) before the request to the
\* store after it and the response.
Outcome(st, nid, r) == [store |-> st, nextId |-> nid, resp |-> r]

NotFound(id) == Response(HTTP_404_NOT_FOUND, <<"Product with id '", id, "' was not found.">>, {}, 0)

BadRequest(m) == Response(HTTP_400_BAD_REQUEST, m, {}, 0)

\* GetProduct with no `if not product:`: serializing the None that find
\* returns for an absent id aborts the request.
GetProductUnchecked(st, nid, id) ==
    IF ~Exists(st, id)
    THEN Outcome(st, nid, Response(HTTP_500_INTERNAL_SERVER_ERROR, <<>>, {}, 0))
    ELSE Outcome(st, nid, Response(HTTP_200_OK, <<>>, {Find(st, id)}, 0))

\* ProductResource.get
GetProduct(st, nid, id) ==
    IF ~Exists(st, id)
    THEN Outcome(st, nid, NotFound(id))
    ELSE Outcome(st, nid, Response(HTTP_200_OK, <<>>, {Find(st, id)}, 0))

\* PutProduct as an upsert: a valid body for an unknown id stores the product.
PutProductUpsert(st, nid, id, data) ==
    IF ~ValidData(data)
    THEN Outcome(st, nid, IF Exists(st, id) THEN BadRequest(<<"Bad Request">>) ELSE NotFound(id))
    ELSE LET product == [Deserialize(Product(id, NoText, "", 0), data) EXCEPT !.id = id]
         IN  Outcome(Delete(st, id) \cup {product}, nid,
                     Response(HTTP_200_OK, <<>>, {product}, 0))

\* PutProduct as a patch: the description the product had is kept.
PutProductKeepsDescription(st, nid, id, data) ==
    IF ~Exists(st, id)
    THEN Outcome(st, nid, NotFound(id))
    ELSE IF ~ValidData(data)
    THEN Outcome(st, nid, BadRequest(<<"Bad Request">>))
    ELSE LET product == [Find(st, id) EXCEPT !.name = data.name, !.price = data.price]
         IN  Outcome(Update(st, id, product), nid,
                     Response(HTTP_200_OK, <<>>, {product}, 0))

\* PutProduct without `product.id = product_id`: the id of the body, when the
\* body carries one, ends up in the product.
PutProductBodyId(st, nid, id, data) ==
    IF ~Exists(st, id)
    THEN Outcome(st, nid, NotFound(id))
    ELSE IF ~ValidData(data)
    THEN Outcome(st, nid, BadRequest(<<"Bad Request">>))
    ELSE LET product == [Deserialize(Find(st, id), data) EXCEPT
                             !.id = IF data.id # 0 THEN data.id ELSE id]
         IN  Outcome(Update(st, id, product), nid,
                     Response(HTTP_200_OK, <<>>, {product}, 0))

\* ProductResource.put
PutProduct(st, nid, id, data) ==
    IF ~Exists(st, id)
    THEN Outcome(st, nid, NotFound(id))
    ELSE IF ~ValidData(data)
    THEN Outcome(st, nid, BadRequest(<<"Bad Request">>))
    ELSE LET product == [Deserialize(Find(st, id), data) EXCEPT !.id = id]
         IN  Outcome(Update(st, id, product), nid,
                     Response(HTTP_200_OK, <<>>, {product}, 0))

\* DeleteProduct answering 404 for an id that is not there.
DeleteProductStrict(st, nid, id) ==
    IF ~Exists(st, id)
    THEN Outcome(st, nid, NotFound(id))
    ELSE Outcome(Delete(st, id), nid, Response(HTTP_204_NO_CONTENT, <<>>, {}, 0))

\* DeleteProduct that answers 204 without deleting the product.
DeleteProductKeepsRow(st, nid, id) ==
    Outcome(st, nid, Response(HTTP_204_NO_CONTENT, <<>>, {}, 0))

\* ProductResource.delete
DeleteProduct(st, nid, id) ==
    IF ~Exists(st, id)
    THEN Outcome(st, nid, Response(HTTP_204_NO_CONTENT, <<>>, {}, 0))
    ELSE Outcome(Delete(st, id), nid, Response(HTTP_204_NO_CONTENT, <<>>, {}, 0))

\* PostProduct that creates the product without the check of the body.
PostProductUnchecked(st, nid, data) ==
    LET product == [Deserialize(Product(0, NoText, "", 0), data) EXCEPT !.id = nid]
    IN  Outcome(Insert(st, nid, product), nid + 1,
                Response(HTTP_201_CREATED, <<>>, {product}, nid))

\* PostProduct that answers 201 and a Location without product.create().
PostProductNotCreated(st, nid, data) ==
    IF ~ValidData(data)
    THEN Outcome(st, nid, BadRequest(<<"Bad Request">>))
    ELSE LET product == [Deserialize(Product(0, NoText, "", 0), data) EXCEPT !.id = nid]
         IN  Outcome(st, nid, Response(HTTP_201_CREATED, <<>>, {product}, nid))

\* ProductCollection.get
ListProducts(st, nid, q) ==
    LET named == IF q.name # NoText
                 THEN { r \in st : Like(r.name, <<"%">> \o q.name \o <<"%">>) }
                 ELSE st
        above == IF q.min # <<>>
                 THEN { r \in named : PriceGe(r.price, q.min[1]) }
                 ELSE named
        below == IF q.max # <<>>
                 THEN { r \in above : PriceLe(r.price, q.max[1]) }
                 ELSE above
    IN  Outcome(st, nid, Response(HTTP_200_OK, <<>>, below, 0))

\* ProductCollection.post
PostProduct(st, nid, data) ==
    IF ~ValidData(data)
    THEN Outcome(st, nid, BadRequest(<<"Bad Request">>))
    ELSE LET product == [Deserialize(Product(0, NoText, "", 0), data) EXCEPT !.id = nid]
         IN  Outcome(Insert(st, nid, product), nid + 1,
                     Response(HTTP_201_CREATED, <<>>, {product}, nid))

\* The rows left once every product of `ids` has been deleted, one by one.
DeleteAll(st, ids) == { r \in st : r.id \notin ids }

\* ProductCollection.delete
DeleteByName(st, nid, name) ==
    LET products == FindByName(st, name)
    IN  Outcome(DeleteAll(st, { r.id : r \in products }), nid,
                Response(HTTP_204_NO_CONTENT, <<>>, {}, 0))

\* The acceptance step 'the product with name "X" is deleted': the products
\* of the answer to GET /products?name=X whose name is X.
NamedExactly(st, nid, name) ==
    { r \in ListProducts(st, nid, Query(name, <<>>, <<>>)).resp.body : r.name = name }

\* ApplyDiscount that looks at the body before it looks for the product.
ApplyDiscountBodyFirst(st, nid, id, data) ==
    IF data.kind = "none"
    THEN Outcome(st, nid, BadRequest(<<"Discount percentage must be provided.">>))
    ELSE IF ~Exists(st, id)
    THEN Outcome(st, nid,
                 Response(HTTP_404_NOT_FOUND, <<"Product with id ", id, " not found.">>, {}, 0))
    ELSE Outcome(UpdatePrice(st, id, NewPrice(Find(st, id).price, ToFloat(data))), nid,
                 Response(HTTP_200_OK, <<>>, {}, 0))

\* DiscountResource.post
ApplyDiscount(st, nid, id, data) ==
    IF ~Exists(st, id)
    THEN Outcome(st, nid,
                 Response(HTTP_404_NOT_FOUND, <<"Product with id ", id, " not found.">>, {}, 0))
    ELSE IF data.kind = "none"
    THEN Outcome(st, nid, BadRequest(<<"Discount percentage must be provided.">>))
    ELSE LET f == ToFloat(data)
         IN  IF f.exc = "ValueError"
             THEN Outcome(st, nid, BadRequest(<<"could not convert string to float">>))
             ELSE IF f.exc = "TypeError"
             THEN Outcome(st, nid, Response(HTTP_500_INTERNAL_SERVER_ERROR, <<>>, {}, 0))
             ELSE IF OutOfRange(f)
             THEN Outcome(st, nid,
                          BadRequest(<<"Discount percentage must be between 0 and 100.">>))
             ELSE LET price == NewPrice(Find(st, id).price, f)
                      product == [Find(st, id) EXCEPT !.price = price]
                  IN  Outcome(UpdatePrice(st, id, price), nid,
                              Response(HTTP_200_OK, <<>>, {product}, 0))

\* ------------------------------------------------------------------- state
VARIABLES
    store,     \* the rows of the products table
    nextId,    \* the next value of the table's id sequence
    last,      \* the request served last
    resp,      \* its response
    prev,      \* the rows of the table when that request arrived
    deleted,   \* the ids DELETE /products/{id} has removed
    nreq,      \* requests served so far
    workers,   \* the request each concurrent worker is serving, and how far it is
    store0,    \* the rows of the table before the concurrent workers began
    step       \* the acceptance step 'the product with name "X" is deleted'

vars == <<store, nextId, last, resp, prev, deleted, nreq, workers, store0, step>>

\* The acceptance step: where it stands ("idle", "found" once its GET is
\* answered and its DELETE is still to be sent, "done"), the name X, the id
\* of the product it will delete, and the numbers of its first and of its
\* last request among the requests served.
Step(pc, name, id, from, at) ==
    [pc |-> pc, name |-> name, id |-> id, from |-> from, at |-> at]

IdleStep == Step("idle", NoText, 0, 0, 0)

\* The concurrent workers (gunicorn workers, or replicas) over the one table.
Workers == {1, 2}

\* A worker: its request, where its handler stands ("idle", "loaded" once the
\* product is read and the write is still to come, "deleting" inside the
\* loop of delete by name, "done"), what the handler holds (the product as
\* it read it, the product it will write, the ids it found and the ids still
\* to delete), its response, and whether what it read was a table with a
\* delete by name half done.
Worker(request, pc, read, product, matched, pending, r, partial) ==
    [request |-> request, pc |-> pc, read |-> read, product |-> product,
     matched |-> matched, pending |-> pending, resp |-> r, partial |-> partial]

IdleWorker == Worker(NoRequest, "idle", {}, {}, {}, {}, NoResponse, FALSE)

Init ==
    /\ store = {}
    /\ nextId = 1
    /\ last = NoRequest
    /\ resp = NoResponse
    /\ prev = {}
    /\ deleted = {}
    /\ nreq = 0
    /\ workers = <<>>
    /\ store0 = {}
    /\ step = IdleStep

\* One request served from arrival to response.
Requested(request, out) ==
    /\ nreq < MaxRequests
    /\ nreq' = nreq + 1
    /\ last' = request
    /\ prev' = store
    /\ store' = out.store
    /\ nextId' = out.nextId
    /\ resp' = out.resp
    /\ UNCHANGED <<workers, store0>>

\* A request that is not one of the acceptance step's.
Serve(request, out) ==
    /\ Requested(request, out)
    /\ UNCHANGED step

Create ==
    \E data \in Bodies :
        /\ nextId <= MaxId
        /\ Serve(Request("create", 0, NoText, data, NoDiscount),
                 PostProduct(store, nextId, data))
        /\ UNCHANGED deleted

Get ==
    \E id \in Ids :
        /\ Serve(Request("get", id, NoText, NoBody, NoDiscount),
                 GetProduct(store, nextId, id))
        /\ UNCHANGED deleted

Put ==
    \E id \in Ids, data \in Bodies :
        /\ Serve(Request("update", id, NoText, data, NoDiscount),
                 PutProduct(store, nextId, id, data))
        /\ UNCHANGED deleted

DeleteById ==
    \E id \in Ids :
        /\ Serve(Request("delete_by_id", id, NoText, NoBody, NoDiscount),
                 DeleteProduct(store, nextId, id))
        /\ deleted' = IF Exists(store, id) THEN deleted \cup {id} ELSE deleted

DeleteProductsByName ==
    \E name \in QueryNames :
        /\ Serve(Request("delete_by_name", 0, name, NoBody, NoDiscount),
                 DeleteByName(store, nextId, name))
        /\ UNCHANGED deleted

\* The step's GET /products?name=X and its loop up to the DELETE.  The list
\* answers in the store's order, which is any order: the first product of
\* the name is any of them.  With no product of that name in the answer the
\* loop sends nothing and the step is over.
StepGet ==
    \E name \in StepNames :
        LET q == Query(name, <<>>, <<>>)
            named == NamedExactly(store, nextId, name)
        IN  /\ step.pc # "found"
            /\ Requested(ListRequest(q), ListProducts(store, nextId, q))
            /\ UNCHANGED deleted
            /\ IF named = {}
               THEN step' = Step("done", name, 0, nreq + 1, nreq + 1)
               ELSE \E first \in named :
                        step' = Step("found", name, first.id, nreq + 1, 0)

\* The step's DELETE /products/{id} of the product it found, and its break.
\* Requests of other clients are served between the GET and the DELETE.
StepDelete ==
    /\ step.pc = "found"
    /\ Requested(Request("delete_by_id", step.id, NoText, NoBody, NoDiscount),
                 DeleteProduct(store, nextId, step.id))
    /\ deleted' = IF Exists(store, step.id) THEN deleted \cup {step.id} ELSE deleted
    /\ step' = [step EXCEPT !.pc = "done", !.at = nreq + 1]

List ==
    \E q \in Queries :
        /\ Serve(ListRequest(q), ListProducts(store, nextId, q))
        /\ UNCHANGED deleted

PostDiscount ==
    \E id \in Ids, data \in Discounts :
        /\ Serve(Request("apply_discount", id, NoText, NoBody, data),
                 ApplyDiscount(store, nextId, id, data))
        /\ UNCHANGED deleted

Next ==
    \/ Create
    \/ Get
    \/ Put
    \/ DeleteById
    \/ DeleteProductsByName
    \/ StepGet
    \/ StepDelete
    \/ List
    \/ PostDiscount

Spec == Init /\ [][Next]_vars


\* ------------------------------------------------------ concurrent workers
\* Two requests served at once over the one table.  A handler reaches the
\* table only through the calls it makes on Products: each find, find_by_name,
\* query, create, update and delete is one statement (with its commit) against
\* the table, and the statements of the two handlers interleave freely.

\* Rows of the table when the concurrent workers begin.
InitialTables ==
    { { Product(1, <<"a">>, "d1", 10000), Product(2, <<"a">>, "d2", 5) },
      { Product(1, <<"a">>, "d1", 10000), Product(2, <<"b">>, "", 1) } }

ConcIds == {1, 2}

ConcBodies == { Body(<<"b">>, "d2", 5000, {}, TRUE, 0), Body(<<"a">>, "d1", 0, {}, TRUE, 0) }

ConcDiscounts == { Discount("number", 20), Discount("number", 50), Discount("none", 0) }

ConcInit ==
    /\ store \in InitialTables
    /\ store0 = store
    /\ nextId = 3
    /\ workers = [w \in Workers |-> IdleWorker]
    /\ last = NoRequest
    /\ resp = NoResponse
    /\ prev = {}
    /\ deleted = {}
    /\ nreq = 0
    /\ step = IdleStep

\* Some other worker is inside the loop of delete by name, with some of the
\* products it found deleted and some still there.
HalfDeleted(w) ==
    \E v \in Workers \ {w} :
        /\ workers[v].pc = "deleting"
        /\ workers[v].pending # {}
        /\ workers[v].pending # workers[v].matched

Done(w, request, r) ==
    workers' = [workers EXCEPT ![w] = Worker(request, "done", {}, {}, {}, {}, r, HalfDeleted(w))]

Frame == UNCHANGED <<nextId, last, resp, prev, deleted, nreq, store0, step>>

\* ProductResource.get: Products.find and the response.
WorkerGet(w) ==
    \E id \in ConcIds :
        /\ workers[w].pc = "idle"
        /\ Done(w, Request("get", id, NoText, NoBody, NoDiscount),
                GetProduct(store, nextId, id).resp)
        /\ UNCHANGED store
        /\ Frame

\* ProductCollection.get with no filter: Products.query.all() and the response.
WorkerList(w) ==
    /\ workers[w].pc = "idle"
    /\ Done(w, ListRequest(NoQuery), ListProducts(store, nextId, NoQuery).resp)
    /\ UNCHANGED store
    /\ Frame

\* The first half of put, of delete and of the discount: Products.find, and
\* everything the handler decides from the product it read.  An error ends the
\* request here; otherwise the handler holds the product it is about to write.
WorkerFind(w) ==
    \E request \in
           { Request("update", id, NoText, data, NoDiscount) : id \in ConcIds, data \in ConcBodies }
             \cup { Request("apply_discount", id, NoText, NoBody, d) :
                        id \in ConcIds, d \in ConcDiscounts }
             \cup { Request("delete_by_id", id, NoText, NoBody, NoDiscount) : id \in ConcIds } :
        LET out == CASE request.op = "update" ->
                          PutProduct(store, nextId, request.id, request.data)
                     [] request.op = "apply_discount" ->
                          ApplyDiscount(store, nextId, request.id, request.discount)
                     [] OTHER -> DeleteProduct(store, nextId, request.id)
        IN  /\ workers[w].pc = "idle"
            /\ IF Exists(store, request.id) /\ out.resp.status \in {HTTP_200_OK, HTTP_204_NO_CONTENT}
               THEN workers' = [workers EXCEPT ![w] =
                        Worker(request, "loaded", {Find(store, request.id)}, out.resp.body,
                               {}, {}, out.resp, HalfDeleted(w))]
               ELSE Done(w, request, out.resp)
            /\ UNCHANGED store
            /\ Frame

\* The second half: product.update() or product.delete() with what the
\* handler holds, against the table as it is by now.  An update that has a
\* column to write and finds the row gone writes nothing and fails (a storage
\* error); an update with no column to write sends nothing to the table.
WorkerWrite(w) ==
    LET me == workers[w]
        id == me.request.id
    IN  /\ me.pc = "loaded"
        /\ store' = IF me.request.op \in {"update", "apply_discount"}
                     THEN WriteChanged(store, id, CHOOSE r \in me.read : TRUE,
                                       CHOOSE r \in me.product : TRUE)
                     ELSE Delete(store, id)
        /\ workers' = [workers EXCEPT
               ![w].pc = "done",
               ![w].resp = IF /\ me.request.op # "delete_by_id"
                              /\ ~Exists(store, id)
                              /\ me.product # me.read
                           THEN Response(HTTP_500_INTERNAL_SERVER_ERROR, <<>>, {}, 0)
                           ELSE @]
        /\ Frame

\* ProductCollection.delete: Products.find_by_name.
WorkerFindByName(w) ==
    \E name \in {<<"a">>, <<"c">>} :
        LET ids == { r.id : r \in FindByName(store, name) }
            request == Request("delete_by_name", 0, name, NoBody, NoDiscount)
        IN  /\ workers[w].pc = "idle"
            /\ IF ids = {}
               THEN Done(w, request, Response(HTTP_204_NO_CONTENT, <<>>, {}, 0))
               ELSE workers' = [workers EXCEPT ![w] =
                        Worker(request, "deleting", {}, {}, ids, ids, NoResponse, HalfDeleted(w))]
            /\ UNCHANGED store
            /\ Frame

\* ProductCollection.delete: one turn of the loop, product.delete(); after the
\* last turn the response.
WorkerDeleteNext(w) ==
    \E id \in workers[w].pending :
        /\ workers[w].pc = "deleting"
        /\ store' = Delete(store, id)
        /\ workers' = [workers EXCEPT
               ![w].pending = @ \ {id},
               ![w].pc = IF workers[w].pending = {id} THEN "done" ELSE "deleting",
               ![w].resp = IF workers[w].pending = {id}
                           THEN Response(HTTP_204_NO_CONTENT, <<>>, {}, 0)
                           ELSE NoResponse]
        /\ Frame

ConcNext ==
    \E w \in Workers :
        \/ WorkerGet(w)
        \/ WorkerList(w)
        \/ WorkerFind(w)
        \/ WorkerWrite(w)
        \/ WorkerFindByName(w)
        \/ WorkerDeleteNext(w)

ConcSpec == ConcInit /\ [][ConcNext]_vars

\* ============================ properties of the sequential specification ====

\* The product the last request addressed, as it was when the request arrived.
Addressed == Find(prev, last.id)

\* C1: every product held in the store has price > 0, whatever requests were
\* served; apply_discount never persists a price of 0 or less.
C1_PriceAlwaysPositive == \A r \in store : r.price > 0

\* n / 100 cents, n >= 0, rounded to whole cents with ties away from zero.
RoundHalfAway(n) == (n + 50) \div 100

\* C4: a successful apply_discount with a percentage in [0, 100] on a price of
\* whole cents persists and returns price - price * pct / 100 rounded to two
\* places with ties away from zero.
C4_DiscountRoundsHalfAway ==
    ( /\ last.op = "apply_discount"
      /\ last.discount.kind = "number"
      /\ resp.status = HTTP_200_OK
      /\ Addressed.price # NaN )
    => LET expected ==
               RoundHalfAway(Addressed.price * 100 - Addressed.price * last.discount.pct)
       IN  /\ \A r \in resp.body : r.price = expected
           /\ Find(store, last.id).price = expected

\* C5: apply_discount on an existing product with a numeric percentage below 0
\* or above 100, or with no discount_percentage field, answers 400 (for the
\* missing field with 'Discount percentage must be provided.') and leaves the
\* stored product as it was.
C5_InvalidPercentageRejected ==
    ( /\ last.op = "apply_discount"
      /\ Exists(prev, last.id)
      /\ \/ last.discount.kind = "none"
         \/ /\ last.discount.kind = "number"
            /\ (last.discount.pct < 0 \/ last.discount.pct > 100) )
    => /\ resp.status = HTTP_400_BAD_REQUEST
       /\ last.discount.kind = "none"
              => resp.message = <<"Discount percentage must be provided.">>
       /\ store = prev

C5_Witness ==
    /\ last.op = "apply_discount"
    /\ Exists(prev, last.id)
    /\ last.discount.kind = "number"
    /\ last.discount.pct > 100
    /\ resp.status = HTTP_400_BAD_REQUEST
    /\ Addressed.price = 10000

\* C6: apply_discount on an existing product with a discount_percentage that
\* is no number (a non-numeric string, null, a list, 'nan') answers 400 and
\* leaves the stored price as it was.
C6_NonNumberRejected ==
    ( /\ last.op = "apply_discount"
      /\ Exists(prev, last.id)
      /\ last.discount.kind \in {"string", "null", "list", "nan"} )
    => /\ resp.status = HTTP_400_BAD_REQUEST
       /\ store = prev

\* C7: apply_discount on an id that is not in the store answers 404 whatever
\* the body is, and the store is unchanged.
C7_DiscountNotFoundFirst ==
    (last.op = "apply_discount" /\ ~Exists(prev, last.id))
    => /\ resp.status = HTTP_404_NOT_FOUND
       /\ store = prev

C7_Witness ==
    /\ last.op = "apply_discount"
    /\ ~Exists(prev, last.id)
    /\ last.discount.kind = "none"
    /\ resp.status = HTTP_404_NOT_FOUND
    /\ store # {}

\* C8: delete_by_id of an id that is not in the store (never created, or
\* already deleted) answers 204 and changes nothing; a second delete of the
\* id just deleted would leave the store as the first left it.
C8_DeleteIdempotent ==
    /\ (last.op = "delete_by_id" /\ ~Exists(prev, last.id))
           => (resp.status = HTTP_204_NO_CONTENT /\ store = prev)
    /\ last.op = "delete_by_id"
           => LET again == DeleteProduct(store, nextId, last.id)
              IN  again.store = store /\ again.resp.status = HTTP_204_NO_CONTENT

C8_Witness ==
    /\ last.op = "delete_by_id"
    /\ last.id \in deleted
    /\ ~Exists(prev, last.id)
    /\ resp.status = HTTP_204_NO_CONTENT
    /\ store # {}

\* C9: delete_by_id of a stored product answers 204, removes that product and
\* no other; from then on the id is not in the store (no create hands it out
\* again) and a get of it answers 404.
C9_DeleteRemovesForGood ==
    /\ (last.op = "delete_by_id" /\ Exists(prev, last.id))
           => (resp.status = HTTP_204_NO_CONTENT /\ store = prev \ {Addressed})
    /\ \A id \in deleted : ~Exists(store, id)
    /\ (last.op = "get" /\ last.id \in deleted) => resp.status = HTTP_404_NOT_FOUND

C9_Witness ==
    /\ last.op = "get"
    /\ last.id \in deleted
    /\ resp.status = HTTP_404_NOT_FOUND
    /\ \E r \in store : r.id > last.id

\* C10: update of an id that is not in the store answers 404 with "Product
\* with id '<id>' was not found.", whatever the body, and the store is as it
\* was: no product is created.
C10_UpdateNotFound ==
    (last.op = "update" /\ ~Exists(prev, last.id))
    => /\ resp.status = HTTP_404_NOT_FOUND
       /\ resp.message = <<"Product with id '", last.id, "' was not found.">>
       /\ store = prev

C10_Witness ==
    /\ last.op = "update"
    /\ ~Exists(prev, last.id)
    /\ ValidData(last.data)
    /\ resp.status = HTTP_404_NOT_FOUND
    /\ store # {}


\* ============================ properties of the concurrent specification ====

\* The table after `request` was served alone, from arrival to response.
Served(st, request) ==
    CASE request.op = "update" -> PutProduct(st, nextId, request.id, request.data).store
      [] request.op = "apply_discount" ->
             ApplyDiscount(st, nextId, request.id, request.discount).store
      [] OTHER -> st

\* C2: two apply_discount and/or update requests on the same product that run
\* at once lose no write: once both are answered, the stored price is the one
\* a run of the two requests one after the other, in some order, leaves.
C2_NoLostUpdate ==
    LET a == workers[1].request
        b == workers[2].request
    IN  ( /\ workers[1].pc = "done"
          /\ workers[2].pc = "done"
          /\ a.op \in {"update", "apply_discount"}
          /\ b.op \in {"update", "apply_discount"}
          /\ a.id = b.id )
        => Find(store, a.id).price \in
               { Find(Served(Served(store0, a), b), a.id).price,
                 Find(Served(Served(store0, b), a), a.id).price }

\* C3: delete_by_name is one atomic unit: no list, get, update or
\* apply_discount of another worker reads a table in which some but not all
\* of the products the delete found are deleted.
C3_DeleteByNameAtomic ==
    \A w \in Workers :
        workers[w].request.op \in {"list", "get", "update", "apply_discount"}
            => ~workers[w].partial

\* ==================== further properties of the sequential specification ====

\* C11: a successful update stores exactly the name, description and price of
\* the body under the id of the path, whatever id the body carries, and returns
\* that record; a get of the id returns it too, and the store holds as many
\* products as before.
C11_UpdateReplaces ==
    (last.op = "update" /\ resp.status = HTTP_200_OK)
    => /\ Exists(store, last.id)
       /\ LET product == Find(store, last.id)
          IN  /\ product.id = last.id
              /\ product.name = last.data.name
              /\ product.price = last.data.price
              /\ "description" \notin last.data.missing
                     => product.description = last.data.description
              /\ resp.body = {product}
              /\ GetProduct(store, nextId, last.id).resp.status = HTTP_200_OK
              /\ GetProduct(store, nextId, last.id).resp.body = {product}
       /\ Cardinality(store) = Cardinality(prev)
       /\ { r \in store : r.id # last.id } = { r \in prev : r.id # last.id }

C11_Witness ==
    /\ last.op = "update"
    /\ resp.status = HTTP_200_OK
    /\ last.data.id # 0
    /\ last.data.id # last.id
    /\ Addressed.name # last.data.name
    /\ Addressed.description # last.data.description
    /\ Addressed.price # last.data.price
    /\ Cardinality(store) = 2

\* The body breaks a rule of create and update: the name is missing or empty,
\* or the price is missing, no number, or <= 0.
Rejectable(data) ==
    \/ "name" \in data.missing
    \/ data.name = NoText
    \/ "price" \in data.missing
    \/ ~data.numeric
    \/ data.price <= 0

\* C12: create, and update of a stored product, answer 400 to every body
\* whose name is missing or empty or whose price is missing, no number or
\* <= 0 (the empty body included), and leave the store as it was.
C12_InvalidBodyRejected ==
    ( /\ \/ last.op = "create"
         \/ last.op = "update" /\ Exists(prev, last.id)
      /\ Rejectable(last.data) )
    => /\ resp.status = HTTP_400_BAD_REQUEST
       /\ resp.body = {}
       /\ store = prev

C12_Witness ==
    /\ last.op = "update"
    /\ Exists(prev, last.id)
    /\ last.data.price = 0
    /\ last.data.name # NoText
    /\ last.data.missing = {}
    /\ last.data.numeric
    /\ resp.status = HTTP_400_BAD_REQUEST
    /\ Addressed.name # last.data.name

\* C13: create with a valid body answers 201 with the persisted product and a
\* Location for it; a get of that id returns a record with the name,
\* description and price of the body, and the store holds one product more.
C13_CreateThenGet ==
    (last.op = "create" /\ ValidData(last.data))
    => /\ resp.status = HTTP_201_CREATED
       /\ resp.location # 0
       /\ LET got == GetProduct(store, nextId, resp.location).resp
          IN  /\ got.status = HTTP_200_OK
              /\ got.body = resp.body
              /\ \A product \in got.body :
                     /\ product.id = resp.location
                     /\ product.name = last.data.name
                     /\ product.price = last.data.price
                     /\ "description" \notin last.data.missing
                            => product.description = last.data.description
              /\ Cardinality(got.body) = 1
       /\ prev \subseteq store
       /\ Cardinality(store) = Cardinality(prev) + 1

C13_Witness ==
    /\ last.op = "create"
    /\ ValidData(last.data)
    /\ resp.status = HTTP_201_CREATED
    /\ resp.location = 2
    /\ prev # {}
    /\ \E product \in store : product.id = 2 /\ product.price = 10000

IdsOf(st) == { r.id : r \in st }

\* C14: no two stored products share an id; create gives the new product an
\* id no stored product has; update and apply_discount leave the ids of the
\* stored products as they were, and a delete takes ids away and changes none.
C14_IdsUniqueAndStable ==
    /\ \A r1, r2 \in store : r1.id = r2.id => r1 = r2
    /\ (last.op = "create" /\ resp.status = HTTP_201_CREATED)
           => /\ resp.location \notin IdsOf(prev)
              /\ IdsOf(store) = IdsOf(prev) \cup {resp.location}
    /\ last.op \in {"update", "apply_discount", "get"} => IdsOf(store) = IdsOf(prev)
    /\ last.op = "delete_by_id" => IdsOf(store) = IdsOf(prev) \ {last.id}
    /\ last.op = "delete_by_name" => IdsOf(store) \subseteq IdsOf(prev)

C14_Witness ==
    /\ last.op = "update"
    /\ resp.status = HTTP_200_OK
    /\ last.data.id # last.id
    /\ last.data.id \in IdsOf(store)
    /\ last.id \in IdsOf(store)

\* A filter text with no "%" and no "_" in it.
Literal(text) == \A i \in 1..Len(text) : text[i] \notin {"%", "_"}

\* What each filter of a query asks of a product: its name holds the filter
\* text, taken literally and in either case; its price is a number not below
\* min_price; its price is a number not above max_price.
NameAsked(r, q) == q.name = NoText \/ Contains(r.name, q.name)

MinAsked(r, q) == q.min = <<>> \/ (r.price # NaN /\ r.price >= q.min[1])

MaxAsked(r, q) == q.max = <<>> \/ (r.price # NaN /\ r.price <= q.max[1])

\* C15: list answers 200 with exactly the stored products that satisfy every
\* filter present in the query, no more and no fewer: the name filter,
\* min_price <= price and price <= max_price, both bounds inclusive, and a
\* bound of 0 is a bound.  The store is left as it was.
C15_ListFilters ==
    last.op = "list"
    => /\ resp.status = HTTP_200_OK
       /\ store = prev
       /\ resp.body = { r \in prev : /\ NameAsked(r, last.query)
                                     /\ MinAsked(r, last.query)
                                     /\ MaxAsked(r, last.query) }

\* For a filter text with no wildcard in it, and of the products whose price
\* is a number, list answers exactly those that satisfy every filter present.
C15_LiteralTextsNumberPrices ==
    (last.op = "list" /\ Literal(last.query.name))
    => /\ resp.status = HTTP_200_OK
       /\ store = prev
       /\ resp.body \subseteq prev
       /\ \A r \in prev :
              r.price # NaN
              => (r \in resp.body
                    <=> NameAsked(r, last.query) /\ MinAsked(r, last.query)
                                                /\ MaxAsked(r, last.query))

\* C16: the name filter of list is a case-insensitive substring match on the
\* filter text taken literally: a list filtered by name alone answers exactly
\* the stored products whose name contains the text, "%" and "_" included.
C16_NameFilterLiteral ==
    (last.op = "list" /\ last.query.name # NoText
        /\ last.query.min = <<>> /\ last.query.max = <<>>)
    => resp.body = { r \in prev : Contains(r.name, last.query.name) }

\* On filter texts with no wildcard in them the name filter is the literal
\* case-insensitive substring match.
C16_LiteralTextsMatch ==
    (last.op = "list" /\ last.query.name # NoText /\ Literal(last.query.name)
        /\ last.query.min = <<>> /\ last.query.max = <<>>)
    => resp.body = { r \in prev : Contains(r.name, last.query.name) }

\* C17: delete_by_name answers 204 and removes the stored products whose name
\* is exactly the given name, all of them, and no product of another name;
\* with no product of that name the store is left as it was.
C17_DeleteByNameExact ==
    last.op = "delete_by_name"
    => /\ resp.status = HTTP_204_NO_CONTENT
       /\ store = { r \in prev : r.name # last.name }

\* delete_by_name always answers 204 and removes every product of exactly
\* the given name.
C17_RemovesEqualNames ==
    last.op = "delete_by_name"
    => /\ resp.status = HTTP_204_NO_CONTENT
       /\ store \subseteq prev
       /\ \A r \in store : r.name # last.name

\* C18: right after delete_by_name(name), a lookup of the same name, by
\* find_by_name and by list filtered by that name, answers no product.
C18_DeleteThenLookupEmpty ==
    last.op = "delete_by_name"
    => /\ FindByName(store, last.name) = {}
       /\ ListProducts(store, nextId, Query(last.name, <<>>, <<>>)).resp.body = {}

\* For a name with no wildcard in it the lookup after delete_by_name is empty.
C18_LiteralNamesEmpty ==
    (last.op = "delete_by_name" /\ Literal(last.name))
    => /\ FindByName(store, last.name) = {}
       /\ ListProducts(store, nextId, Query(last.name, <<>>, <<>>)).resp.body = {}

\* C19: get by id answers 200 with the stored record exactly when a product
\* of that id is in the store; for an absent id it answers 404 with the
\* message "Product with id '<id>' was not found." and nothing else; in both
\* cases the store is left as it was.
C19_GetFoundOrNotFound ==
    last.op = "get"
    => /\ store = prev
       /\ resp.status = HTTP_200_OK <=> Exists(prev, last.id)
       /\ Exists(prev, last.id)
              => /\ resp.body = { r \in prev : r.id = last.id }
                 /\ Cardinality(resp.body) = 1
       /\ ~Exists(prev, last.id)
              => /\ resp.status = HTTP_404_NOT_FOUND
                 /\ resp.message = <<"Product with id '", last.id, "' was not found.">>
                 /\ resp.body = {}

\* A get of an id that was never assigned, over a store that holds products.
C19_Witness ==
    /\ last.op = "get"
    /\ last.id >= nextId
    /\ last.id \notin deleted
    /\ store # {}
    /\ resp.status = HTTP_404_NOT_FOUND

\* C20: once the acceptance step 'the product with name "X" is deleted' has
\* run, the store holds no product whose name is exactly X, also when several
\* products shared the name.
C20_StepLeavesNoneNamed ==
    (step.pc = "done" /\ step.at = nreq) => \A r \in store : r.name # step.name

\* With at most one product of the name in the store, and no request of
\* another client served between the step's GET and its DELETE, the step
\* leaves none.
C20_SingleNameDeleted ==
    ( /\ step.pc = "done"
      /\ step.at = nreq
      /\ step.at - step.from <= 1
      /\ Cardinality({ r \in prev : r.name = step.name }) <= 1 )
    => \A r \in store : r.name # step.name

\* C21: a successful apply_discount changes only the price of the addressed
\* product: its id, name and description stay, every other product stays, no
\* product is added or removed, and the new price is a price that is not
\* greater than the price before the request.
C21_DiscountChangesOnlyPrice ==
    (last.op = "apply_discount" /\ resp.status = HTTP_200_OK)
    => /\ Exists(prev, last.id)
       /\ Exists(store, last.id)
       /\ LET product == Find(store, last.id)
          IN  /\ product.id = Addressed.id
              /\ product.name = Addressed.name
              /\ product.description = Addressed.description
              /\ product.price # NaN
              /\ product.price <= Addressed.price
       /\ { r \in store : r.id # last.id } = { r \in prev : r.id # last.id }
       /\ Cardinality(store) = Cardinality(prev)

\* A successful apply_discount changes nothing but the price of the addressed
\* product, and a percentage that is a number, applied to a price that is a
\* number, yields a price that is a number and not greater.
C21_FrameAndNumbers ==
    (last.op = "apply_discount" /\ resp.status = HTTP_200_OK)
    => /\ Exists(prev, last.id)
       /\ store = (prev \ {Addressed})
                      \cup {[Addressed EXCEPT !.price = Find(store, last.id).price]}
       /\ Cardinality(store) = Cardinality(prev)
       /\ (last.discount.kind = "number" /\ Addressed.price # NaN)
              => /\ Find(store, last.id).price # NaN
                 /\ Find(store, last.id).price <= Addressed.price

=============================================================================
